---- MODULE Spec2Model ----
(***************************************************************************)
(* Model of the asset preloader of dvalib (src/src/assets.ts): the class   *)
(* Preloader with its fields assets, onProgress, onComplete and            *)
(* loadingProgress, the methods on, load, loadJson, loadImg, request and   *)
(* getResult, and the browser events (XMLHttpRequest load/error, Image     *)
(* load/error) that drive the callbacks the preloader installs.            *)
(*                                                                         *)
(* JavaScript runs every handler to completion on one thread, so each      *)
(* method call and each event handler is one atomic action.                *)
(***************************************************************************)
EXTENDS Integers, Sequences, FiniteSets, TLC

(* ---------------------------- bounds ----------------------------------- *)

\* number of load calls made on the preloader
MaxBatches == 2
\* number of asset descriptors passed to load, over all calls
MaxItems == 2

(* ------------------------ values of the model -------------------------- *)

\* asset ids a caller uses
Ids == {"a", "b"}

\* A src is the sequence of its characters.
png == <<"p", "n", "g">>
jpg == <<"j", "p", "g">>
jpeg == <<"j", "p", "e", "g">>
svg == <<"s", "v", "g">>
json == <<"j", "s", "o", "n">>

\* "x.png", "y.json", "z.txt"
Srcs == { <<"x", ".">> \o png, <<"y", ".">> \o json, <<"z", ".", "t", "x", "t">> }

\* interface Asset {id, src}
Asset == [id : Ids, src : Srcs]

\* the callbacks a caller registers; noop is the initial () => {}
noop == "noop"
Callbacks == {"f", "g"}

\* assets[id] of an id that was never stored, and the null of getResult
undefined == <<"undefined">>
null == <<"null">>

\* the response an XMLHttpRequest for src delivers as text
Text(src) == <<"text", src>>
\* the HTMLImageElement whose src is the object URL of the blob fetched from src
Img(src) == <<"img", src>>

(* ------------------------------ numbers -------------------------------- *)

RECURSIVE GCD(_, _)
GCD(a, b) == IF b = 0 THEN a ELSE GCD(b, a % b)

\* a / b of two counters, as the fraction in lowest terms; 0 / 0 is NaN
Div(a, b) == IF b = 0 THEN <<"NaN">> ELSE <<a \div GCD(a, b), b \div GCD(a, b)>>

Zero == <<0, 1>>
One == <<1, 1>>

\* p <= q for fractions
Leq(p, q) == p[1] * q[2] <= q[1] * p[2]

(* ---------------------------- type dispatch ---------------------------- *)

\* s.split('.'): the pieces of s between the dots
RECURSIVE split(_)
split(s) ==
    IF \A k \in 1..Len(s) : s[k] # "."
    THEN <<s>>
    ELSE LET d == CHOOSE k \in 1..Len(s) : s[k] = "." /\ \A j \in 1..(k - 1) : s[j] # "."
         IN <<SubSeq(s, 1, d - 1)>> \o split(SubSeq(s, d + 1, Len(s)))

\* array.pop(): the last element
pop(arr) == arr[Len(arr)]

\* the switch without its case 'jpeg'
Kind_NoJpeg(src) ==
    LET type == pop(split(src))
    IN IF type \in {svg, png, jpg} THEN "image"
       ELSE IF type = json THEN "json"
       ELSE "unsupported"

\* const type = asset.src.split('.').pop(), and the switch on it
Kind(src) ==
    LET type == pop(split(src))
    IN IF type \in {svg, png, jpg, jpeg} THEN "image"
       ELSE IF type = json THEN "json"
       ELSE "unsupported"

(* ------------------------------- state --------------------------------- *)

VARIABLES
    assets,           \* Preloader.assets: id -> stored result, or undefined
    onProgress,       \* Preloader.onProgress
    onComplete,       \* Preloader.onComplete
    loadingProgress,  \* Preloader.loadingProgress
    batches,          \* batches[b]: the argument of the b-th load call
    total,            \* total[b]: the const total of the b-th load call
    loaded,           \* loaded[b]: the let loaded of the b-th load call
    status,           \* status[b][i]: where item i of batch b stands
    signals,          \* signals[b][i]: calls of onFinishedLoading made for the item
    calls             \* the callback invocations made so far, in order

vars == <<assets, onProgress, onComplete, loadingProgress, batches, total,
          loaded, status, signals, calls>>

\* status of an item:
\*   "pending"     xhrObj.send() done, no event yet
\*   "decoding"    image: response stored, img.onload not yet fired
\*   "done"        onFinishedLoading was called for the item
\*   "fetchError"  the XMLHttpRequest ended in an error event
\*   "decodeError" the Image ended in an error event
Statuses == {"pending", "decoding", "done", "fetchError", "decodeError"}

Batches == 1..Len(batches)
Items(b) == 1..Len(batches[b])
NumItems == IF Len(batches) = 0 THEN 0
            ELSE LET RECURSIVE Sum(_)
                     Sum(b) == IF b = 0 THEN 0 ELSE Len(batches[b]) + Sum(b - 1)
                 IN Sum(Len(batches))

(* ----------------------------- operations ------------------------------ *)

\* getResult without the ?? null
getResult_NoNull(id) == assets[id]

\* getResult(id): this.assets[id] ?? null
getResult(id) == IF assets[id] = undefined \/ assets[id] = null THEN null ELSE assets[id]

\* onFinishedLoading comparing loaded with total - 1
onFinishedLoading_OffByOne(c, b, cb) ==
    LET n == c.loaded + 1
        p == Div(n, c.total)
    IN [c EXCEPT !.loaded = n,
                 !.progress = p,
                 !.calls = IF n = c.total - 1
                           THEN Append(@, [event |-> "complete", cb |-> cb,
                                           batch |-> b, progress |-> p])
                           ELSE @]

\* onFinishedLoading calling this.onComplete without the comparison
onFinishedLoading_NoGuard(c, b, cb) ==
    LET n == c.loaded + 1
        p == Div(n, c.total)
    IN [c EXCEPT !.loaded = n,
                 !.progress = p,
                 !.calls = Append(@, [event |-> "complete", cb |-> cb,
                                      batch |-> b, progress |-> p])]

\* onFinishedLoading setting loadingProgress before loaded++
onFinishedLoading_StaleProgress(c, b, cb) ==
    LET n == c.loaded + 1
        p == Div(c.loaded, c.total)
    IN [c EXCEPT !.loaded = n,
                 !.progress = p,
                 !.calls = IF n = c.total
                           THEN Append(@, [event |-> "complete", cb |-> cb,
                                           batch |-> b, progress |-> p])
                           ELSE @]

\* The part of the state onFinishedLoading reads and writes, for one closure:
\* c.loaded and c.total are the closure's variables, c.progress is
\* this.loadingProgress, c.calls the invocations of callbacks made so far.
\* onFinishedLoading of batch b, with this.onComplete = cb.
onFinishedLoading(c, b, cb) ==
    LET n == c.loaded + 1
        p == Div(n, c.total)
    IN [c EXCEPT !.loaded = n,
                 !.progress = p,
                 !.calls = IF n = c.total
                           THEN Append(@, [event |-> "complete", cb |-> cb,
                                           batch |-> b, progress |-> p])
                           ELSE @]

\* the closure of batch b in the current state
Closure(b) == [loaded |-> loaded[b], total |-> total[b], signals |-> signals[b],
               progress |-> loadingProgress, calls |-> calls]

\* a call of onFinishedLoading made for item i: by the default branch of the
\* switch, by the response handler of loadJson, or as img.onload
callback(c, i, b, cb) ==
    [onFinishedLoading(c, b, cb) EXCEPT !.signals[i] = @ + 1]

\* forEach whose switch has no default branch
RECURSIVE forEach_SkipDefault(_, _, _, _, _)
forEach_SkipDefault(c, as, i, b, cb) ==
    IF i > Len(as) THEN c ELSE forEach_SkipDefault(c, as, i + 1, b, cb)

\* assets.forEach of load, from item i on: an unsupported type calls
\* onFinishedLoading at once, the other types only send their request
RECURSIVE forEach(_, _, _, _, _)
forEach(c, as, i, b, cb) ==
    IF i > Len(as) THEN c
    ELSE forEach(IF Kind(as[i].src) = "unsupported" THEN callback(c, i, b, cb) ELSE c,
                 as, i + 1, b, cb)

\* on whose case 'progress' lacks its break and falls through to 'complete'
on_FallThrough(eventName, callbackFunction) ==
    /\ CASE eventName = "progress" ->
              /\ onProgress' = callbackFunction
              /\ onComplete' = callbackFunction
         [] eventName = "complete" ->
              /\ onComplete' = callbackFunction
              /\ UNCHANGED onProgress
    /\ UNCHANGED <<assets, loadingProgress, batches, total, loaded, status, signals, calls>>

\* on(eventName, callbackFunction)
on(eventName, callbackFunction) ==
    /\ CASE eventName = "progress" ->
              /\ onProgress' = callbackFunction
              /\ UNCHANGED onComplete
         [] eventName = "complete" ->
              /\ onComplete' = callbackFunction
              /\ UNCHANGED onProgress
    /\ UNCHANGED <<assets, loadingProgress, batches, total, loaded, status, signals, calls>>

\* load emptying this.assets for the new batch
load_ClearsAssets(as) ==
    /\ Len(batches) < MaxBatches
    /\ NumItems + Len(as) <= MaxItems
    /\ LET b == Len(batches) + 1
           c0 == [loaded |-> 0, total |-> Len(as), signals |-> [i \in 1..Len(as) |-> 0],
                  progress |-> Zero, calls |-> calls]
           c == forEach(c0, as, 1, b, onComplete)
       IN /\ batches' = Append(batches, as)
          /\ total' = Append(total, c.total)
          /\ loaded' = Append(loaded, c.loaded)
          /\ loadingProgress' = c.progress
          /\ calls' = c.calls
          /\ status' = Append(status, [i \in 1..Len(as) |->
                          IF Kind(as[i].src) = "unsupported" THEN "done" ELSE "pending"])
          /\ signals' = Append(signals, c.signals)
    /\ assets' = [id \in Ids |-> undefined]
    /\ UNCHANGED <<onProgress, onComplete>>

\* load keeping loaded and total in fields all batches share
load_SharedCounters(as) ==
    /\ Len(batches) < MaxBatches
    /\ NumItems + Len(as) <= MaxItems
    /\ LET b == Len(batches) + 1
           c0 == [loaded |-> 0, total |-> Len(as), signals |-> [i \in 1..Len(as) |-> 0],
                  progress |-> Zero, calls |-> calls]
           c == forEach(c0, as, 1, b, onComplete)
       IN /\ batches' = Append(batches, as)
          /\ total' = [k \in 1..b |-> c.total]
          /\ loaded' = [k \in 1..b |-> c.loaded]
          /\ loadingProgress' = c.progress
          /\ calls' = c.calls
          /\ status' = Append(status, [i \in 1..Len(as) |->
                          IF Kind(as[i].src) = "unsupported" THEN "done" ELSE "pending"])
          /\ signals' = Append(signals, c.signals)
    /\ UNCHANGED <<assets, onProgress, onComplete>>

\* load comparing loaded with total once more after the forEach, so that an
\* empty batch completes at once
load_EmptyCompletes(as) ==
    /\ Len(batches) < MaxBatches
    /\ NumItems + Len(as) <= MaxItems
    /\ LET b == Len(batches) + 1
           c0 == [loaded |-> 0, total |-> Len(as), signals |-> [i \in 1..Len(as) |-> 0],
                  progress |-> Zero, calls |-> calls]
           c == forEach(c0, as, 1, b, onComplete)
       IN /\ batches' = Append(batches, as)
          /\ total' = Append(total, c.total)
          /\ loaded' = Append(loaded, c.loaded)
          /\ loadingProgress' = c.progress
          /\ calls' = IF Len(as) = 0
                      THEN Append(c.calls, [event |-> "complete", cb |-> onComplete,
                                            batch |-> b, progress |-> c.progress])
                      ELSE c.calls
          /\ status' = Append(status, [i \in 1..Len(as) |->
                          IF Kind(as[i].src) = "unsupported" THEN "done" ELSE "pending"])
          /\ signals' = Append(signals, c.signals)
    /\ UNCHANGED <<assets, onProgress, onComplete>>

\* load(assets)
load(as) ==
    /\ Len(batches) < MaxBatches
    /\ NumItems + Len(as) <= MaxItems
    /\ LET b == Len(batches) + 1
           c0 == [loaded |-> 0, total |-> Len(as), signals |-> [i \in 1..Len(as) |-> 0],
                  progress |-> Zero, calls |-> calls]
           c == forEach(c0, as, 1, b, onComplete)
       IN /\ batches' = Append(batches, as)
          /\ total' = Append(total, c.total)
          /\ loaded' = Append(loaded, c.loaded)
          /\ loadingProgress' = c.progress
          /\ calls' = c.calls
          /\ status' = Append(status, [i \in 1..Len(as) |->
                          IF Kind(as[i].src) = "unsupported" THEN "done" ELSE "pending"])
          /\ signals' = Append(signals, c.signals)
    /\ UNCHANGED <<assets, onProgress, onComplete>>

\* the state after onFinishedLoading is called for item i of batch b
Finish(b, i) ==
    LET c == callback(Closure(b), i, b, onComplete)
    IN /\ loaded' = [loaded EXCEPT ![b] = c.loaded]
       /\ loadingProgress' = c.progress
       /\ calls' = c.calls
       /\ signals' = [signals EXCEPT ![b] = c.signals]

\* the response handler of loadJson calling back without storing the response
loadJson_NoStore(b, i) ==
    /\ status[b][i] = "pending"
    /\ Kind(batches[b][i].src) = "json"
    /\ Finish(b, i)
    /\ status' = [status EXCEPT ![b][i] = "done"]
    /\ UNCHANGED <<assets, onProgress, onComplete, batches, total>>

\* xhrObj.onload of the request loadJson sent for item i of batch b
loadJson(b, i) ==
    /\ status[b][i] = "pending"
    /\ Kind(batches[b][i].src) = "json"
    /\ assets' = [assets EXCEPT ![batches[b][i].id] = Text(batches[b][i].src)]
    /\ Finish(b, i)
    /\ status' = [status EXCEPT ![b][i] = "done"]
    /\ UNCHANGED <<onProgress, onComplete, batches, total>>

\* the response handler of loadImg installing img.onload without storing img
loadImg_NoStore(b, i) ==
    /\ status[b][i] = "pending"
    /\ Kind(batches[b][i].src) = "image"
    /\ status' = [status EXCEPT ![b][i] = "decoding"]
    /\ UNCHANGED <<assets, onProgress, onComplete, loadingProgress, batches, total, loaded,
                   signals, calls>>

\* xhrObj.onload of the request loadImg sent for item i of batch b
loadImg(b, i) ==
    /\ status[b][i] = "pending"
    /\ Kind(batches[b][i].src) = "image"
    /\ assets' = [assets EXCEPT ![batches[b][i].id] = Img(batches[b][i].src)]
    /\ status' = [status EXCEPT ![b][i] = "decoding"]
    /\ UNCHANGED <<onProgress, onComplete, loadingProgress, batches, total, loaded,
                   signals, calls>>

\* img.onload of the image loadImg created for item i of batch b
imgOnload(b, i) ==
    /\ status[b][i] = "decoding"
    /\ Finish(b, i)
    /\ status' = [status EXCEPT ![b][i] = "done"]
    /\ UNCHANGED <<assets, onProgress, onComplete, batches, total>>

\* the error event of a request: request installs no handler for it
requestError(b, i) ==
    /\ status[b][i] = "pending"
    /\ status' = [status EXCEPT ![b][i] = "fetchError"]
    /\ UNCHANGED <<assets, onProgress, onComplete, loadingProgress, batches, total,
                   loaded, signals, calls>>

\* the error event of an image: loadImg installs no handler for it
imgError(b, i) ==
    /\ status[b][i] = "decoding"
    /\ status' = [status EXCEPT ![b][i] = "decodeError"]
    /\ UNCHANGED <<assets, onProgress, onComplete, loadingProgress, batches, total,
                   loaded, signals, calls>>

(* --------------------------- specification ----------------------------- *)

\* export const preloader = new Preloader()
Init ==
    /\ assets = [id \in Ids |-> undefined]
    /\ onProgress = noop
    /\ onComplete = noop
    /\ loadingProgress = Zero
    /\ batches = <<>>
    /\ total = <<>>
    /\ loaded = <<>>
    /\ status = <<>>
    /\ signals = <<>>
    /\ calls = <<>>

Next ==
    \/ \E e \in {"progress", "complete"}, f \in Callbacks : on(e, f)
    \/ \E n \in 0..(MaxItems - NumItems) : \E as \in [1..n -> Asset] : load(as)
    \/ \E b \in Batches : \E i \in Items(b) : loadJson(b, i)
    \/ \E b \in Batches : \E i \in Items(b) : loadImg(b, i)
    \/ \E b \in Batches : \E i \in Items(b) : imgOnload(b, i)
    \/ \E b \in Batches : \E i \in Items(b) : requestError(b, i)
    \/ \E b \in Batches : \E i \in Items(b) : imgError(b, i)

Spec == Init /\ [][Next]_vars

TypeOK ==
    /\ assets \in [Ids -> {undefined} \cup {Text(s) : s \in Srcs} \cup {Img(s) : s \in Srcs}]
    /\ onProgress \in Callbacks \cup {noop}
    /\ onComplete \in Callbacks \cup {noop}
    /\ Len(batches) <= MaxBatches
    /\ \A b \in Batches : status[b] \in [Items(b) -> Statuses]

(* ------------------------ vocabulary of the claims --------------------- *)

\* onFinishedLoading has been called for item i of batch b
Finished(b, i) == status[b][i] = "done"
AllFinished(b) == \A i \in Items(b) : Finished(b, i)
NumFinished(b) == Cardinality({i \in Items(b) : Finished(b, i)})

\* the invocations of the complete callback made by batch b
CompleteCalls(b) == {k \in 1..Len(calls) : calls[k].event = "complete" /\ calls[k].batch = b}
\* the invocations of the progress callback
ProgressCalls == {k \in 1..Len(calls) : calls[k].event = "progress"}

\* item i of batch b stores a result (image or json kind)
Stores(b, i) == Kind(batches[b][i].src) # "unsupported"
\* the result item i of batch b stores
Payload(b, i) == IF Kind(batches[b][i].src) = "image"
                 THEN Img(batches[b][i].src) ELSE Text(batches[b][i].src)
\* no other storing item of any batch carries the id of item i of batch b
SoleWriter(b, i) ==
    \A b2 \in Batches : \A i2 \in Items(b2) :
        (Stores(b2, i2) /\ batches[b2][i2].id = batches[b][i].id) => (b2 = b /\ i2 = i)

\* a load call is the step that adds a batch
IsLoad == Len(batches') = Len(batches) + 1
\* batch b has an item whose request or decode is still outstanding
InFlight(b) == \E i \in Items(b) : status[b][i] \in {"pending", "decoding"}

RECURSIVE SumSeq(_)
SumSeq(q) == IF q = <<>> THEN 0 ELSE Head(q) + SumSeq(Tail(q))
\* the calls of onFinishedLoading made so far, over all items of all batches
TotalSignals == SumSeq([b \in Batches |-> SumSeq(signals[b])])

(* -------------------------------- C1 ----------------------------------- *)

\* C1: a batch of n >= 1 items invokes the complete callback at most once at
\* any time, and once all its items have finished, in whatever order, it has
\* invoked it exactly once, with loadingProgress equal to 1 at that moment.
C1_CompleteOnceAtOne ==
    \A b \in Batches :
        /\ Cardinality(CompleteCalls(b)) <= 1
        /\ (total[b] >= 1 /\ AllFinished(b)) =>
              /\ Cardinality(CompleteCalls(b)) = 1
              /\ \A k \in CompleteCalls(b) : calls[k].progress = One

\* a batch of two fetched items, both finished, has called complete
C1_Witness ==
    \E b \in Batches :
        /\ total[b] = 2
        /\ \A i \in Items(b) : Stores(b, i) /\ Finished(b, i)
        /\ CompleteCalls(b) # {}

(* -------------------------------- C2 ----------------------------------- *)

\* C2: while an item of a batch has not finished, the batch's loaded is below
\* its total and its complete callback has not been invoked; and as long as
\* every non-empty batch has such an item, loadingProgress is below 1.
C2_NoCompleteWhileUnfinished ==
    /\ \A b \in Batches :
          ~AllFinished(b) => (loaded[b] < total[b] /\ CompleteCalls(b) = {})
    /\ (\A b \in Batches : total[b] = 0 \/ ~AllFinished(b)) =>
          (loadingProgress # One /\ Leq(loadingProgress, One))

\* one item of a batch of two has finished, the request of the other ended in
\* an error and will never call back
C2_Witness ==
    \E b \in Batches :
        /\ total[b] = 2
        /\ \E i \in Items(b) : Finished(b, i) /\ Stores(b, i)
        /\ \E i \in Items(b) : status[b][i] = "fetchError"

(* -------------------------------- C3 ----------------------------------- *)

\* C3: the progress callback is invoked once per item completion: the number
\* of its invocations equals the number of onFinishedLoading calls made.
C3_ProgressPerCompletion == Cardinality(ProgressCalls) = TotalSignals

(* -------------------------------- C4 ----------------------------------- *)

\* C4: with one batch of n >= 1 items and no other batch, 0 <= loaded <= n,
\* loaded is the number of items finished so far, loadingProgress is
\* loaded / n and at most 1; each step leaves loaded or adds one to it, and
\* never lowers loadingProgress.
C4_State ==
    (Len(batches) = 1 /\ total[1] >= 1) =>
        /\ total[1] = Len(batches[1])
        /\ 0 <= loaded[1] /\ loaded[1] <= total[1]
        /\ loaded[1] = NumFinished(1)
        /\ loaded[1] = SumSeq(signals[1])
        /\ loadingProgress[1] * total[1] = loaded[1] * loadingProgress[2]
        /\ Leq(loadingProgress, One)

C4_Step ==
    (Len(batches) = 1 /\ Len(batches') = 1 /\ total[1] >= 1) =>
        /\ loaded'[1] \in {loaded[1], loaded[1] + 1}
        /\ Leq(loadingProgress, loadingProgress')

C4_ProgressIsLoadedOverTotal == []C4_State /\ [][C4_Step]_vars

\* a single batch of two items with exactly one of them finished
C4_Witness ==
    /\ Len(batches) = 1
    /\ total[1] = 2
    /\ loaded[1] = 1
    /\ loadingProgress = <<1, 2>>
    /\ \E i \in Items(1) : Stores(1, i) /\ Finished(1, i)

(* -------------------------------- C5 ----------------------------------- *)

\* assets after the storing items of batch as have stored in list order
RECURSIVE StoreInListOrder(_, _)
StoreInListOrder(st, as) ==
    IF as = <<>> THEN st
    ELSE StoreInListOrder(
            IF Kind(Head(as).src) = "image" THEN [st EXCEPT ![Head(as).id] = Img(Head(as).src)]
            ELSE IF Kind(Head(as).src) = "json" THEN [st EXCEPT ![Head(as).id] = Text(Head(as).src)]
            ELSE st,
            Tail(as))

\* C5 as claimed: whatever the order in which the items of a batch finish, the
\* final asset store is the same, hence the one that finishing in list order
\* gives, and complete has been invoked exactly once.
C5_OrderIndependent ==
    (Len(batches) = 1 /\ total[1] >= 1 /\ AllFinished(1)) =>
        /\ assets = StoreInListOrder([id \in Ids |-> undefined], batches[1])
        /\ Cardinality(CompleteCalls(1)) = 1

\* C5 amended: when all items of a batch have finished, every storing item of
\* it whose id no other storing item carries has its own payload in the store,
\* whatever the order of completion; with one batch whose storing items have
\* distinct ids the store is the one list order gives; and complete has been
\* invoked exactly once by the batch.
C5_OrderIndependentDistinctIds ==
    /\ \A b \in Batches :
          (total[b] >= 1 /\ AllFinished(b)) =>
             /\ Cardinality(CompleteCalls(b)) = 1
             /\ \A i \in Items(b) :
                   (Stores(b, i) /\ SoleWriter(b, i)) => assets[batches[b][i].id] = Payload(b, i)
    /\ (Len(batches) = 1 /\ AllFinished(1)
          /\ \A i \in Items(1) : Stores(1, i) => SoleWriter(1, i)) =>
          assets = StoreInListOrder([id \in Ids |-> undefined], batches[1])

\* a finished batch of two storing items with two ids
C5_Witness ==
    /\ Len(batches) = 1
    /\ total[1] = 2
    /\ AllFinished(1)
    /\ \A i \in Items(1) : Stores(1, i) /\ SoleWriter(1, i)
    /\ \A id \in Ids : assets[id] # undefined

(* -------------------------------- C6 ----------------------------------- *)

\* C6 as claimed: for a storing item whose id no other item stores, getResult
\* is null until the item's completion is counted and its payload afterwards.
C6_AbsentUntilCompleted ==
    \A b \in Batches : \A i \in Items(b) :
        (Stores(b, i) /\ SoleWriter(b, i)) =>
            getResult(batches[b][i].id) = IF Finished(b, i) THEN Payload(b, i) ELSE null

\* C6 amended: getResult is null until the item's response has arrived and its
\* payload from then on: for a json item that is the moment its completion is
\* counted, for an image item it is earlier, while the image is still decoding
\* (or has failed to decode) and the completion has not been counted.
C6_AbsentUntilResponse ==
    \A b \in Batches : \A i \in Items(b) :
        (Stores(b, i) /\ SoleWriter(b, i)) =>
            /\ getResult(batches[b][i].id) =
                  IF status[b][i] \in {"pending", "fetchError"} THEN null ELSE Payload(b, i)
            /\ Kind(batches[b][i].src) = "json" =>
                  (Finished(b, i) <=> status[b][i] \notin {"pending", "fetchError"})

\* an image whose response is stored while its completion is not yet counted
C6_Witness ==
    \E b \in Batches : \E i \in Items(b) :
        /\ Kind(batches[b][i].src) = "image"
        /\ SoleWriter(b, i)
        /\ status[b][i] = "decoding"
        /\ signals[b][i] = 0
        /\ getResult(batches[b][i].id) = Img(batches[b][i].src)

(* -------------------------------- C7 ----------------------------------- *)

\* C7: every dispatched item gives exactly one completion signal whatever the
\* outcome of its fetch and decode: never two, and one as soon as the outcome
\* (success or error) has been delivered.
C7_OneSignalPerItem ==
    \A b \in Batches : \A i \in Items(b) :
        /\ signals[b][i] <= 1
        /\ status[b][i] \in {"done", "fetchError", "decodeError"} => signals[b][i] = 1

(* -------------------------------- C8 ----------------------------------- *)

\* C8: an item of unsupported kind has been counted exactly once when load
\* returns and stores nothing: an id carried only by unsupported items has a
\* null getResult at every time, and a batch whose other items have finished
\* has loaded = total.
C8_UnsupportedCountsStoresNothing ==
    /\ \A b \in Batches : \A i \in Items(b) :
          ~Stores(b, i) => (signals[b][i] = 1 /\ Finished(b, i))
    /\ \A id \in Ids :
          (\A b \in Batches : \A i \in Items(b) : Stores(b, i) => batches[b][i].id # id)
             => getResult(id) = null
    /\ \A b \in Batches :
          /\ loaded[b] = SumSeq(signals[b])
          /\ (\A i \in Items(b) : Stores(b, i) => Finished(b, i)) => loaded[b] = total[b]

\* a completed batch of an unsupported item and a stored one with another id
C8_Witness ==
    \E b \in Batches : \E i, j \in Items(b) :
        /\ ~Stores(b, i)
        /\ Stores(b, j) /\ Finished(b, j)
        /\ batches[b][i].id # batches[b][j].id
        /\ getResult(batches[b][i].id) = null
        /\ getResult(batches[b][j].id) # null
        /\ CompleteCalls(b) # {}

(* -------------------------------- C9 ----------------------------------- *)

\* a load call made when every earlier batch has finished, and at least one has
LoadAfterFinished ==
    /\ IsLoad
    /\ Len(batches) >= 1
    /\ \A b \in Batches : AllFinished(b)

\* the number of unsupported items of the batch just loaded
NumUnsupported(as) == Cardinality({i \in 1..Len(as) : Kind(as[i].src) = "unsupported"})

\* C9 as claimed: such a call leaves loadingProgress at 0, the store and both
\* callbacks as they were.
C9_LoadResetsToZero ==
    [][LoadAfterFinished =>
          /\ loadingProgress' = Zero
          /\ assets' = assets
          /\ onProgress' = onProgress /\ onComplete' = onComplete]_vars

\* C9 amended: such a call leaves loadingProgress at k / n, where k of the n
\* items of the new batch are of unsupported kind (0 when k = 0 or n = 0), and
\* leaves the store, every getResult and both callbacks as they were.
C9_LoadResetsToUnsupportedShare ==
    [][LoadAfterFinished =>
          LET as == batches'[Len(batches')]
          IN /\ loadingProgress' = IF NumUnsupported(as) = 0 THEN Zero
                                   ELSE Div(NumUnsupported(as), Len(as))
             /\ assets' = assets
             /\ \A id \in Ids : getResult(id)' = getResult(id)
             /\ onProgress' = onProgress /\ onComplete' = onComplete]_vars

\* the second batch, all of unsupported kind, was loaded after the first had
\* completed with a stored result: the calls of complete are in that order
C9_Witness ==
    /\ Len(batches) = 2
    /\ total[1] >= 1 /\ total[2] >= 1
    /\ \A i \in Items(2) : ~Stores(2, i)
    /\ Len(calls) = 2 /\ calls[1].batch = 1 /\ calls[2].batch = 2
    /\ \E id \in Ids : getResult(id) # null
    /\ loadingProgress = One

(* -------------------------------- C10 ---------------------------------- *)

\* a load call made while an earlier batch is in flight
LoadWhileInFlight == IsLoad /\ \E b \in Batches : InFlight(b)

\* C10 as claimed: the batches share one loaded and one total, so after the
\* second call the in-flight batch has the counters of the new one.
C10_SharedCounters ==
    [][LoadWhileInFlight =>
          \A b \in Batches :
             /\ loaded'[b] = loaded'[Len(batches')]
             /\ total'[b] = total'[Len(batches')]]_vars

\* C10 amended: every load call has its own loaded and total; a call made
\* while an earlier batch is in flight leaves the loaded and total of every
\* earlier batch as they were and overwrites only the shared loadingProgress,
\* with the new batch's own loaded / total (0 when nothing of it is loaded).
C10_OwnCountersSharedProgress ==
    [][LoadWhileInFlight =>
          LET new == Len(batches')
          IN /\ \A b \in Batches : loaded'[b] = loaded[b] /\ total'[b] = total[b]
             /\ total'[new] = Len(batches'[new])
             /\ loaded'[new] = NumUnsupported(batches'[new])
             /\ loadingProgress' = IF loaded'[new] = 0 THEN Zero
                                   ELSE Div(loaded'[new], total'[new])]_vars

\* after a second load the first batch is still in flight with its own count
C10_Witness ==
    /\ Len(batches) = 2
    /\ InFlight(1)
    /\ loaded[1] = 1 /\ total[1] = 2
    /\ loaded[2] = 0 /\ total[2] = 0
    /\ loadingProgress = Zero

(* -------------------------------- C11 ---------------------------------- *)

\* the invocations of callbacks a step adds to calls
NewCalls == {k \in 1..Len(calls') : k > Len(calls)}

\* C11: one callback per event kind is kept. A step that changes the callback
\* of one kind is a registration: it leaves the callback of the other kind and
\* the invocations made so far as they were, and the new callback is one a
\* caller passed. A step that invokes a callback keeps the earlier invocations
\* and invokes the complete callback registered at that moment, whatever was
\* registered before it or when the batch was loaded, and nothing else.
C11_LastRegisteredIsInvoked ==
    [][/\ onComplete' # onComplete =>
             (onProgress' = onProgress /\ calls' = calls /\ onComplete' \in Callbacks)
       /\ onProgress' # onProgress =>
             (onComplete' = onComplete /\ calls' = calls /\ onProgress' \in Callbacks)
       /\ Len(calls') >= Len(calls)
       /\ SubSeq(calls', 1, Len(calls)) = calls
       /\ \A k \in NewCalls :
             /\ calls'[k].event = "complete"
             /\ calls'[k].cb = onComplete
             /\ onComplete' = onComplete]_vars

\* the batch loaded second completed first and invoked f; then g was
\* registered, after both load calls, and the batch loaded first invoked g
C11_Witness ==
    /\ Len(calls) = 2
    /\ calls[1].batch = 2 /\ calls[1].cb = "f"
    /\ calls[2].batch = 1 /\ calls[2].cb = "g"
    /\ onComplete = "g"
    /\ onProgress = "f"

(* -------------------------------- C12 ---------------------------------- *)

\* a load call with an empty array
LoadEmpty == IsLoad /\ Len(batches'[Len(batches')]) = 0

\* the value 0 / 0 would give
NaN == Div(0, 0)

\* C12: load([]) returns with loadingProgress 0, invokes no callback and leaves
\* the store, the callbacks and the counters of the other batches as they
\* were; an empty batch has total 0 and loaded 0 for ever, never invokes the
\* complete callback, and loadingProgress is never the result of 0 / 0.
C12_Step ==
    LoadEmpty =>
        /\ loadingProgress' = Zero
        /\ calls' = calls
        /\ assets' = assets
        /\ onProgress' = onProgress /\ onComplete' = onComplete
        /\ \A b \in Batches : loaded'[b] = loaded[b] /\ total'[b] = total[b]

C12_State ==
    /\ loadingProgress # NaN
    /\ ProgressCalls = {}
    /\ \A b \in Batches :
          Len(batches[b]) = 0 => (total[b] = 0 /\ loaded[b] = 0 /\ CompleteCalls(b) = {})
    /\ \A k \in 1..Len(calls) : calls[k].progress # NaN /\ total[calls[k].batch] >= 1

C12_EmptyBatchNoOp == []C12_State /\ [][C12_Step]_vars

\* load([]) was called after a batch had completed and stored a result:
\* loadingProgress is back at 0, the result and the one complete call remain
C12_Witness ==
    /\ Len(batches) = 2
    /\ total[1] >= 1 /\ AllFinished(1)
    /\ Len(batches[2]) = 0
    /\ Len(calls) = 1 /\ calls[1].batch = 1
    /\ loadingProgress = Zero
    /\ \E id \in Ids : getResult(id) # null

(* -------------------------------- C13 ---------------------------------- *)

\* C13: an item that stores a result has stored it when its call of
\* onFinishedLoading has been counted, so in the state the handler that
\* invokes the complete callback of a batch leaves, and in every later one,
\* getResult is non-null for the id of every image and json item of the batch.
\* (The invocation is the last statement of that handler, so the state it
\* leaves is the one the callback sees.)
C13_StoredBeforeCounted ==
    \A b \in Batches :
        /\ \A i \in Items(b) :
              (Stores(b, i) /\ signals[b][i] >= 1) => getResult(batches[b][i].id) # null
        /\ CompleteCalls(b) # {} =>
              \A i \in Items(b) : Stores(b, i) => getResult(batches[b][i].id) # null

\* a batch of an image and a json item with two ids has invoked complete
C13_Witness ==
    \E b \in Batches : \E i, j \in Items(b) :
        /\ Kind(batches[b][i].src) = "image"
        /\ Kind(batches[b][j].src) = "json"
        /\ batches[b][i].id # batches[b][j].id
        /\ CompleteCalls(b) # {}
        /\ getResult(batches[b][i].id) = Img(batches[b][i].src)
        /\ getResult(batches[b][j].id) = Text(batches[b][j].src)

(* -------------------------------- C14 ---------------------------------- *)

\* The srcs the dispatch is tried on: every supported suffix, an upper-case
\* suffix, another suffix, an empty suffix, a trailing query string, two
\* dots, a src without a dot, and the empty src:
\* "x.png", "x.svg", "x.jpg", "x.jpeg", "y.json", "z.txt", "x.PNG", "y.JSON",
\* "x.", "x.png?1", "y.json?1", "x.txt.png", "x.png.txt", "png", "json",
\* "txt", ""
KindSrcs ==
    { <<"x", ".">> \o png, <<"x", ".">> \o svg, <<"x", ".">> \o jpg, <<"x", ".">> \o jpeg,
      <<"y", ".">> \o json, <<"z", ".", "t", "x", "t">>,
      <<"x", ".", "P", "N", "G">>, <<"y", ".", "J", "S", "O", "N">>,
      <<"x", ".">>,
      <<"x", ".">> \o png \o <<"?", "1">>, <<"y", ".">> \o json \o <<"?", "1">>,
      <<"x", ".", "t", "x", "t", ".">> \o png, <<"x", ".">> \o png \o <<".", "t", "x", "t">>,
      png, json, <<"t", "x", "t">>, <<>> }

KindAsset == [id : Ids, src : KindSrcs]

\* one load call with one descriptor, then the events of its request, and the
\* registrations of callbacks
NextKind ==
    \/ \E e \in {"progress", "complete"}, f \in Callbacks : on(e, f)
    \/ \E a \in KindAsset : Len(batches) = 0 /\ load(<<a>>)
    \/ \E b \in Batches : \E i \in Items(b) : loadJson(b, i)
    \/ \E b \in Batches : \E i \in Items(b) : loadImg(b, i)
    \/ \E b \in Batches : \E i \in Items(b) : imgOnload(b, i)
    \/ \E b \in Batches : \E i \in Items(b) : requestError(b, i)
    \/ \E b \in Batches : \E i \in Items(b) : imgError(b, i)

SpecKind == Init /\ [][NextKind]_vars

\* the positions of the dots of s
Dots(s) == {k \in 1..Len(s) : s[k] = "."}
\* the text after the last dot of s
AfterLastDot(s) ==
    LET d == CHOOSE k \in Dots(s) : \A j \in Dots(s) : j <= k
    IN [k \in 1..(Len(s) - d) |-> s[d + k]]

\* the kind a piece of text selects
KindOfText(t) ==
    IF t \in {svg, png, jpg, jpeg} THEN "image" ELSE IF t = json THEN "json" ELSE "unsupported"

\* the kind as claimed: of the text after the last dot; without one, unsupported
ClaimedKind(s) == IF Dots(s) = {} THEN "unsupported" ELSE KindOfText(AfterLastDot(s))
\* the kind as amended: a src without a dot is taken whole
AmendedKind(s) == IF Dots(s) = {} THEN KindOfText(s) ELSE KindOfText(AfterLastDot(s))

\* what the adapter of kind k has done for the one item of the one batch:
\* an unsupported item is finished when load returns, with no request and
\* nothing stored; an image goes through request, decode and img.onload and
\* stores the image; a json item goes through its request and stores the text
Dispatched(k, b, i) ==
    LET a == batches[b][i]
    IN /\ signals[b][i] = IF status[b][i] = "done" THEN 1 ELSE 0
       /\ k = "unsupported" => (status[b][i] = "done" /\ assets[a.id] = undefined)
       /\ k = "image" =>
             assets[a.id] = IF status[b][i] \in {"pending", "fetchError"}
                            THEN undefined ELSE Img(a.src)
       /\ k = "json" =>
             /\ status[b][i] \in {"pending", "done", "fetchError"}
             /\ assets[a.id] = IF status[b][i] = "done" THEN Text(a.src) ELSE undefined

\* what load has done when it returns: a request is outstanding exactly for
\* the items of image or json kind
DispatchedByLoad(k, b, i) ==
    status'[b][i] = IF k = "unsupported" THEN "done" ELSE "pending"

\* C14 as claimed: the text after the last dot decides, and a src without a
\* supported suffix after a dot completes inside load without a request.
C14_SuffixAfterLastDot ==
    \A b \in Batches : \A i \in Items(b) :
        Dispatched(ClaimedKind(batches[b][i].src), b, i)

\* C14 amended: the last piece of src.split('.') decides, compared exactly and
\* with case: the text after the last dot, or the whole src when it has no
\* dot, so that the srcs "png", "svg", "jpg", "jpeg" and "json" select an
\* adapter too; svg, png, jpg, jpeg select the image adapter, json the text
\* adapter, and every other src completes inside load without a request.
C14_State ==
    \A b \in Batches : \A i \in Items(b) :
        Dispatched(AmendedKind(batches[b][i].src), b, i)

C14_Step ==
    IsLoad => \A i \in 1..Len(batches'[1]) :
                  DispatchedByLoad(AmendedKind(batches'[1][i].src), 1, i)

C14_LastSplitPieceDecides == []C14_State /\ [][C14_Step]_vars

\* the src "json", which has no dot, went through the text adapter
C14_Witness ==
    /\ Len(batches) = 1
    /\ batches[1][1].src = json
    /\ status[1][1] = "done"
    /\ assets[batches[1][1].id] = Text(json)

====
